---- MODULE Spec2Model ----
(***************************************************************************)
(* A model of the ThreeScene component (src/src/components/ThreeScene.tsx) *)
(* and of the noise function (src/src/utils/randomUtils.ts).               *)
(*                                                                         *)
(* Numbers.  Every camera coordinate (position or Euler angle) is held as  *)
(* an exact fixed-point integer: the value v is stored as v * Scale.  The  *)
(* arithmetic of the model is exact rational arithmetic; a frame is only   *)
(* taken while every division it performs is exact at this resolution      *)
(* (FrameExact), which bounds the number of frames that follow a drag.     *)
(* IEEE-754 rounding is not modelled.                                      *)
(***************************************************************************)
EXTENDS Integers, Sequences, FiniteSets, TLC

\* ------------------------------------------------------------------ bounds

\* Pointer events carry clientX and clientY of 0 or MaxCoord (pixels).
MaxCoord == 1
\* At most MaxMoves pointer-moves are handled while the mouse is down.
MaxMoves == 2
\* The frame counter (time, in ticks of 0.01) is capped at MaxTime.
MaxTime == 3
\* A noise input is moved by at most MaxShift periods along each axis.
MaxShift == 1

\* ------------------------------------------------------- program constants

\* Fixed-point resolution of the camera coordinates: v is stored as v*Scale.
Scale == 2000 * 20 * 20 * 20

\* targetCameraPosition.x += deltaMove.x * 0.01 (1/PosDen per pixel)
PosDen == 100
\* targetCameraRotation.y += deltaMove.x * 0.005 (1/RotDen per pixel)
RotDen == 200
\* lerp(target, initial, 0.05): the decay rate 1/DecayDen
DecayDen == 20
\* lerp(camera, target, 0.1): the follow rate 1/FollowDen
FollowDen == 10

initialCameraPosition == <<0, 5 * Scale, 15 * Scale>>
initialCameraRotation == <<0, 0, 0>>

Coords == {0, MaxCoord}
\* The sizes (innerWidth x innerHeight) the window takes.
WindowSizes == {"wide", "tall"}

\* The four listener registrations of onMount, as (target, event, handler).
LMouseDown == <<"container", "mousedown", "onMouseDown">>
LMouseMove == <<"window", "mousemove", "onMouseMove">>
LMouseUp == <<"window", "mouseup", "onMouseUp">>
LResize == <<"window", "resize", "handleResize">>

\* ------------------------------------------------------------------- state

VARIABLES
  container,              \* TRUE iff the ref holds a div at mount time
  mounted,                \* the onMount callback has run
  disposed,               \* the component's owner has been disposed
  cleanupRegistered,      \* onCleanup(...) was called inside onMount
  cleanedUp,              \* the onCleanup callback has run
  listeners,              \* registered (target, event, handler) triples
  rafPending,             \* a requestAnimationFrame(animate) is outstanding
  sceneChildren,          \* objects added to the scene
  domAttached,            \* renderer.domElement is a child of container
  rendererDisposed,
  backgroundCleaned,
  innerSize,              \* the window's size (innerWidth x innerHeight)
  cameraAspect,           \* the size camera.aspect was computed from
  rendererSize,           \* the size of the last renderer.setSize
  isMouseDown,
  previousMousePosition,  \* <<x, y>>
  targetCameraPosition,   \* <<x, y, z>> * Scale
  targetCameraRotation,   \* <<x, y, z>> * Scale
  isReturningToStart,
  cameraPosition,         \* camera.position * Scale
  cameraRotation,         \* camera.rotation * Scale
  time,                   \* in ticks of 0.01
  uniformTime,            \* backgroundShape.material.uniforms.time.value
  terrainRotationZ,       \* terrain.rotation.z in ticks of 0.001
  renders,                \* calls of renderer.render
  \* History variables, read only by the properties.  Those of the drag are
  \* reset by pointer-up: they describe the drag that is going on.
  lastPointer,            \* "none", "down" or "up": last handled of the two
  dragOrigin,             \* position of the pointer-down that began the drag
  dragStartPosition,      \* targetCameraPosition at that pointer-down
  dragStartRotation,      \* targetCameraRotation at that pointer-down
  dragMoves,              \* pointer-moves handled since that pointer-down
  dragFramed,             \* a frame has run since that pointer-down
  moves,                  \* pointer-moves handled while the mouse was down
  \* The noise function's caller: one evaluation point and its results.
  noiseIn,                \* <<x, y, z>>, in units of 1/Q
  noiseShift,             \* periods added to noiseIn along each axis
  noiseEvaluated,         \* noise has been called
  noiseBase,              \* noise at noiseIn, * NoiseDen
  noiseOut,               \* noise at the shifted point, * NoiseDen
  pReads                  \* the indices the last call of noise read p at

lifecycleVars == <<container, mounted, disposed, cleanupRegistered, cleanedUp,
                   listeners, rafPending, sceneChildren, domAttached,
                   rendererDisposed, backgroundCleaned>>
windowVars == <<innerSize, cameraAspect, rendererSize>>
mouseVars == <<isMouseDown, previousMousePosition, isReturningToStart>>
targetVars == <<targetCameraPosition, targetCameraRotation>>
cameraVars == <<cameraPosition, cameraRotation>>
frameVars == <<time, uniformTime, terrainRotationZ, renders>>
dragVars == <<dragOrigin, dragStartPosition, dragStartRotation, dragMoves,
              dragFramed>>
historyVars == <<lastPointer, dragVars, moves>>
sceneVars == <<lifecycleVars, windowVars, mouseVars, targetVars, cameraVars,
               frameVars, historyVars>>

setupVars == <<container, innerSize>>
noiseVars == <<noiseIn, noiseShift, noiseEvaluated, noiseBase, noiseOut,
               pReads>>

vars == <<sceneVars, noiseVars>>

\* ------------------------------------------------------------ interpolation

\* a + (b - a) * (1/den): Vector3.lerp and MathUtils.lerp at rate 1/den.
Lerp(a, b, den) == a + ((b - a) \div den)

LerpExact(a, b, den) == (b - a) % den = 0

LerpV(a, b, den) == [k \in 1..3 |-> Lerp(a[k], b[k], den)]

LerpVExact(a, b, den) == \A k \in 1..3 : LerpExact(a[k], b[k], den)

\* DecayedPosition with an epsilon snap: the target jumps onto the initial pose.
DecayedPositionSnap(ret, tp) == IF ret THEN initialCameraPosition ELSE tp

\* The decay step of animate: target <- lerp(target, initial, 0.05), taken
\* only while isReturningToStart.
DecayedPosition(ret, tp) ==
  IF ret THEN LerpV(tp, initialCameraPosition, DecayDen) ELSE tp

DecayedRotation(ret, tr) ==
  IF ret THEN LerpV(tr, initialCameraRotation, DecayDen) ELSE tr

\* FollowedPosition with the steps in the wrong order: the camera follows the
\* target as it stood before the decay step.
FollowedPositionStale(ret, tp, cp) == LerpV(cp, tp, FollowDen)

\* The follow step of animate: camera <- lerp(camera, target, 0.1), where
\* target is the target as the decay step left it.
FollowedPosition(ret, tp, cp) == LerpV(cp, DecayedPosition(ret, tp), FollowDen)

FollowedRotation(ret, tr, cr) == LerpV(cr, DecayedRotation(ret, tr), FollowDen)

\* Every division of one frame is exact at the model's resolution.
FrameExact ==
  /\ isReturningToStart =>
       /\ LerpVExact(targetCameraPosition, initialCameraPosition, DecayDen)
       /\ LerpVExact(targetCameraRotation, initialCameraRotation, DecayDen)
  /\ LerpVExact(cameraPosition,
                DecayedPosition(isReturningToStart, targetCameraPosition),
                FollowDen)
  /\ LerpVExact(cameraRotation,
                DecayedRotation(isReturningToStart, targetCameraRotation),
                FollowDen)

\* ------------------------------------------------------------------- noise

\* Noise inputs are multiples of 1/Q; for these the floating-point
\* arithmetic of noise is exact, and so is the model's.
Q == 2 * 2

permutation ==
  <<
    151, 160, 137, 91, 90, 15, 131, 13, 201, 95, 96, 53, 194, 233, 7, 225,
    140, 36, 103, 30, 69, 142, 8, 99, 37, 240, 21, 10, 23, 190, 6, 148,
    247, 120, 234, 75, 0, 26, 197, 62, 94, 252, 219, 203, 117, 35, 11, 32,
    57, 177, 33, 88, 237, 149, 56, 87, 174, 20, 125, 136, 171, 168, 68, 175,
    74, 165, 71, 134, 139, 48, 27, 166, 77, 146, 158, 231, 83, 111, 229, 122,
    60, 211, 133, 230, 220, 105, 92, 41, 55, 46, 245, 40, 244, 102, 143, 54,
    65, 25, 63, 161, 1, 216, 80, 73, 209, 76, 132, 187, 208, 89, 18, 169,
    200, 196, 135, 130, 116, 188, 159, 86, 164, 100, 109, 198, 173, 186, 3, 64,
    52, 217, 226, 250, 124, 123, 5, 202, 38, 147, 118, 126, 255, 82, 85, 212,
    207, 206, 59, 227, 47, 16, 58, 17, 182, 189, 28, 42, 223, 183, 170, 213,
    119, 248, 152, 2, 44, 154, 163, 70, 221, 153, 101, 155, 167, 43, 172, 9,
    129, 22, 39, 253, 19, 98, 108, 110, 79, 113, 224, 232, 178, 185, 112, 104,
    218, 246, 97, 228, 251, 34, 242, 193, 238, 210, 144, 12, 191, 179, 162, 241,
    81, 51, 145, 235, 249, 14, 239, 107, 49, 192, 214, 31, 181, 199, 106, 157,
    184, 84, 204, 176, 115, 121, 50, 45, 127, 4, 150, 254, 138, 236, 205, 93,
    222, 114, 67, 29, 24, 72, 243, 141, 128, 195, 78, 66, 215, 61, 156, 180
  >>

\* What a read of p outside its 512 entries yields: undefined, which becomes
\* NaN once a number is added to it. Neither is an index of p (a read there
\* yields undefined again), and grad's `hash & 15` makes 0 of both; so does
\* this number, a multiple of 16 too far below zero for the additions of
\* noise to bring it back into the table.
Undefined == -16384

\* The table p as its construction leaves it: p[i] = p[i + 256] =
\* permutation[i] for i in 0..255. No statement of noise assigns to it.
pTable == permutation \o permutation

\* p[i]: the entry of the table for i in 0..511.
p(i) == IF i \in 0..511 THEN pTable[i + 1] ELSE Undefined

\* fade(t) = t*t*t*(t*(t*6-15)+10) at t = k/Q, as FadeNum(k) / FadeDen.
FadeDen == (Q * Q * Q * Q * Q) \div 2

FadeNum(k) == (k * k * k * (k * (k * 6 - 15 * Q) + 10 * Q * Q)) \div 2

\* lerp(t, a, b) = a + t*(b - a) with t = tn / FadeDen; the result carries
\* the denominator of a and b multiplied by FadeDen.
NoiseLerp(tn, a, b) == a * FadeDen + tn * (b - a)

\* grad(hash, x, y, z), the offsets in units of 1/Q.
Grad(hash, x, y, z) ==
  LET h == hash % 16
      u == IF h < 8 THEN x ELSE y
      v == IF h < 4 THEN y ELSE IF h = 12 \/ h = 14 THEN x ELSE z
  IN (IF h % 2 = 0 THEN u ELSE -u) + (IF (h \div 2) % 2 = 0 THEN v ELSE -v)

\* Math.floor(x) for x = n / Q.
Floor(n) == n \div Q

\* Mask with nine bits kept (& 511 in place of & 255).
MaskWide(n) == n % 512

\* Mask with the wrong modulus (255 in place of 256).
MaskOffByOne(n) == n % 255

\* n & 255 for an integer n (two's complement).
Mask(n) == n % 256

\* The lattice cell of an input: Math.floor(x) & 255.
Cell(n) == Mask(Floor(n))

\* The offset within the cell, x -= Math.floor(x), in units of 1/Q.
Frac(n) == n - Floor(n) * Q

\* The denominator of Noise's result.
NoiseDen == Q * FadeDen * FadeDen * FadeDen

\* noise(x, y, z) * NoiseDen, for x = in[1]/Q, y = in[2]/Q, z = in[3]/Q.
Noise(in) ==
  LET X == Cell(in[1])
      Y == Cell(in[2])
      Z == Cell(in[3])
      x == Frac(in[1])
      y == Frac(in[2])
      z == Frac(in[3])
      u == FadeNum(x)
      v == FadeNum(y)
      w == FadeNum(z)
      A == p(X) + Y
      AA == p(A) + Z
      AB == p(A + 1) + Z
      B == p(X + 1) + Y
      BA == p(B) + Z
      BB == p(B + 1) + Z
  IN NoiseLerp(w,
       NoiseLerp(v,
         NoiseLerp(u, Grad(p(AA), x, y, z), Grad(p(BA), x - Q, y, z)),
         NoiseLerp(u, Grad(p(AB), x, y - Q, z), Grad(p(BB), x - Q, y - Q, z))),
       NoiseLerp(v,
         NoiseLerp(u, Grad(p(AA + 1), x, y, z - Q),
                      Grad(p(BA + 1), x - Q, y, z - Q)),
         NoiseLerp(u, Grad(p(AB + 1), x, y - Q, z - Q),
                      Grad(p(BB + 1), x - Q, y - Q, z - Q))))

\* The indices at which noise(x, y, z) reads p.
Reads(in) ==
  LET X == Cell(in[1])
      Y == Cell(in[2])
      Z == Cell(in[3])
      A == p(X) + Y
      AA == p(A) + Z
      AB == p(A + 1) + Z
      B == p(X + 1) + Y
      BA == p(B) + Z
      BB == p(B + 1) + Z
  IN {X, X + 1, A, A + 1, B, B + 1,
      AA, BA, AB, BB, AA + 1, BA + 1, AB + 1, BB + 1}

\* The lattice cells the evaluation points are drawn from, per axis.
CellsX == {-1, 12, 255}
CellsY == {-1, 187}
CellsZ == {-2, 5}

Points(cells) == {c * Q + k : c \in cells, k \in 0..(Q - 1)}

NoiseInputs == Points(CellsX) \X Points(CellsY) \X Points(CellsZ)

\* The point noiseIn moved by the periods of noiseShift: 256 per period.
Shifted(in, shift) == [k \in 1..3 |-> in[k] + shift[k] * 256 * Q]

InitNoise ==
  /\ noiseShift = <<0, 0, 0>>
  /\ noiseEvaluated = FALSE
  /\ noiseBase = 0
  /\ noiseOut = 0
  /\ pReads = {}

\* A caller evaluates noise at noiseIn.
Evaluate ==
  /\ ~noiseEvaluated
  /\ noiseEvaluated' = TRUE
  /\ noiseBase' = Noise(noiseIn)
  /\ noiseOut' = Noise(noiseIn)
  /\ pReads' = Reads(noiseIn)
  /\ UNCHANGED <<noiseIn, noiseShift, sceneVars, setupVars>>

\* A caller evaluates noise one period further along axis k, in direction d.
EvaluateShifted ==
  \E k \in 1..3, d \in {-1, 1} :
    /\ noiseEvaluated
    /\ noiseShift[k] + d \in (-MaxShift)..MaxShift
    /\ noiseShift' = [noiseShift EXCEPT ![k] = @ + d]
    /\ noiseOut' = Noise(Shifted(noiseIn, noiseShift'))
    /\ pReads' = Reads(Shifted(noiseIn, noiseShift'))
    /\ UNCHANGED <<noiseIn, noiseEvaluated, noiseBase, sceneVars, setupVars>>

\* -------------------------------------------------------------------- Init

\* The state of the drag's history variables while no drag is going on.
NoDrag ==
  /\ dragOrigin' = <<0, 0>>
  /\ dragStartPosition' = initialCameraPosition
  /\ dragStartRotation' = initialCameraRotation
  /\ dragMoves' = 0
  /\ dragFramed' = FALSE

InitScene ==
  /\ mounted = FALSE
  /\ disposed = FALSE
  /\ cleanupRegistered = FALSE
  /\ cleanedUp = FALSE
  /\ listeners = {}
  /\ rafPending = FALSE
  /\ sceneChildren = {}
  /\ domAttached = FALSE
  /\ rendererDisposed = FALSE
  /\ backgroundCleaned = FALSE
  /\ cameraAspect = "unset"
  /\ rendererSize = "unset"
  /\ isMouseDown = FALSE
  /\ previousMousePosition = <<0, 0>>
  /\ targetCameraPosition = initialCameraPosition
  /\ targetCameraRotation = initialCameraRotation
  /\ isReturningToStart = FALSE
  /\ cameraPosition = initialCameraPosition
  /\ cameraRotation = initialCameraRotation
  /\ time = 0
  /\ uniformTime = 0
  /\ terrainRotationZ = 0
  /\ renders = 0
  /\ lastPointer = "none"
  /\ dragOrigin = <<0, 0>>
  /\ dragStartPosition = initialCameraPosition
  /\ dragStartRotation = initialCameraRotation
  /\ dragMoves = 0
  /\ dragFramed = FALSE
  /\ moves = 0

Init ==
  /\ container \in BOOLEAN
  /\ innerSize \in WindowSizes
  /\ InitScene
  /\ noiseIn = <<0, 0, 0>>
  /\ InitNoise

\* ----------------------------------------------------------------- actions

\* BuiltScene with the particle group added to the scene.
BuiltSceneWithParticles ==
  {"terrain", "backgroundShape", "particles", "background", "light", "ambient"}

\* The objects onMount adds to the scene (the particle group is commented
\* out in the source and is not among them).
BuiltScene == {"terrain", "backgroundShape", "background", "light", "ambient"}

\* The listeners onMount registers.
MountListeners == {LMouseDown, LMouseMove, LMouseUp, LResize}

\* onMount without its guard clause.
SetupNeverSkipped == FALSE

\* The guard clause of onMount: if (!container) return.
SetupSkipped == ~container

\* The body of animate, run from the state (ret, tp, tr, cp, cr).
Animate(ret, tp, tr, cp, cr) ==
  /\ rafPending' = TRUE
  /\ time' = time + 1
  /\ uniformTime' = time + 1
  /\ targetCameraPosition' = DecayedPosition(ret, tp)
  /\ targetCameraRotation' = DecayedRotation(ret, tr)
  /\ cameraPosition' = FollowedPosition(ret, tp, cp)
  /\ cameraRotation' = FollowedRotation(ret, tr, cr)
  /\ terrainRotationZ' = terrainRotationZ + 1
  /\ renders' = renders + 1

\* onMount: the guard clause, the scene setup, the first call of animate.
OnMount ==
  /\ ~mounted
  /\ mounted' = TRUE
  /\ IF SetupSkipped
       THEN UNCHANGED <<container, disposed, cleanupRegistered, cleanedUp,
                        listeners, rafPending, sceneChildren, domAttached,
                        rendererDisposed, backgroundCleaned, windowVars,
                        mouseVars, targetVars, cameraVars, frameVars,
                        historyVars, noiseVars>>
       ELSE /\ cameraAspect' = innerSize
            /\ rendererSize' = innerSize
            /\ domAttached' = TRUE
            /\ isMouseDown' = FALSE
            /\ previousMousePosition' = <<0, 0>>
            /\ isReturningToStart' = FALSE
            /\ listeners' = listeners \cup MountListeners
            /\ sceneChildren' = BuiltScene
            /\ Animate(FALSE, initialCameraPosition, initialCameraRotation,
                       initialCameraPosition, initialCameraRotation)
            /\ cleanupRegistered' = TRUE
            /\ UNCHANGED <<container, disposed, cleanedUp, rendererDisposed,
                           backgroundCleaned, innerSize, historyVars,
                           noiseVars>>

\* A display refresh: the scheduler calls the pending animate callback.
Frame ==
  /\ rafPending
  /\ time < MaxTime
  /\ FrameExact
  /\ Animate(isReturningToStart, targetCameraPosition, targetCameraRotation,
             cameraPosition, cameraRotation)
  /\ dragFramed' = isMouseDown
  /\ UNCHANGED <<container, mounted, disposed, cleanupRegistered, cleanedUp,
                 listeners, sceneChildren, domAttached, rendererDisposed,
                 backgroundCleaned, windowVars, mouseVars, lastPointer,
                 dragOrigin, dragStartPosition, dragStartRotation, dragMoves,
                 moves, noiseVars>>

\* onMouseDown(event), with event.clientX = x and event.clientY = y.
OnMouseDown(x, y) ==
  /\ isMouseDown' = TRUE
  /\ isReturningToStart' = FALSE
  /\ previousMousePosition' = <<x, y>>
  /\ lastPointer' = "down"
  /\ dragOrigin' = <<x, y>>
  /\ dragStartPosition' = targetCameraPosition
  /\ dragStartRotation' = targetCameraRotation
  /\ dragMoves' = 0
  /\ dragFramed' = FALSE
  /\ UNCHANGED <<lifecycleVars, windowVars, targetVars, cameraVars, frameVars,
                 moves, noiseVars>>

\* MovedPosition with the sign of the y step wrong (+= in place of -=).
MovedPositionSameSign(tp, prev, x, y) ==
  <<tp[1] + (x - prev[1]) * (Scale \div PosDen),
    tp[2] + (y - prev[2]) * (Scale \div PosDen),
    tp[3]>>

\* The target after onMouseMove has added the move from prev to <<x, y>>.
MovedPosition(tp, prev, x, y) ==
  <<tp[1] + (x - prev[1]) * (Scale \div PosDen),
    tp[2] - (y - prev[2]) * (Scale \div PosDen),
    tp[3]>>

MovedRotation(tr, prev, x, y) ==
  <<tr[1] + (y - prev[2]) * (Scale \div RotDen),
    tr[2] + (x - prev[1]) * (Scale \div RotDen),
    tr[3]>>

\* onMouseMove without its `if (!isMouseDown) return`.
OnMouseMoveUnguarded(x, y) ==
  /\ moves < MaxMoves
  /\ targetCameraPosition' =
       MovedPosition(targetCameraPosition, previousMousePosition, x, y)
  /\ targetCameraRotation' =
       MovedRotation(targetCameraRotation, previousMousePosition, x, y)
  /\ previousMousePosition' = <<x, y>>
  /\ dragMoves' = dragMoves + 1
  /\ moves' = moves + 1
  /\ UNCHANGED <<lifecycleVars, windowVars, isMouseDown, isReturningToStart,
                 cameraVars, frameVars, lastPointer, dragOrigin,
                 dragStartPosition, dragStartRotation, dragFramed, noiseVars>>

\* onMouseMove(event), with event.clientX = x and event.clientY = y.
OnMouseMove(x, y) ==
  IF ~isMouseDown
    THEN UNCHANGED vars
    ELSE /\ moves < MaxMoves
         /\ targetCameraPosition' =
              MovedPosition(targetCameraPosition, previousMousePosition, x, y)
         /\ targetCameraRotation' =
              MovedRotation(targetCameraRotation, previousMousePosition, x, y)
         /\ previousMousePosition' = <<x, y>>
         /\ dragMoves' = dragMoves + 1
         /\ moves' = moves + 1
         /\ UNCHANGED <<lifecycleVars, windowVars, isMouseDown,
                        isReturningToStart, cameraVars, frameVars, lastPointer,
                        dragOrigin, dragStartPosition, dragStartRotation,
                        dragFramed, noiseVars>>

\* onMouseUp that leaves isReturningToStart as it was.
OnMouseUpNoReturn ==
  /\ isMouseDown' = FALSE
  /\ lastPointer' = "up"
  /\ NoDrag
  /\ UNCHANGED <<lifecycleVars, windowVars, previousMousePosition,
                 isReturningToStart, targetVars, cameraVars, frameVars, moves,
                 noiseVars>>

\* onMouseUp()
OnMouseUp ==
  /\ isMouseDown' = FALSE
  /\ isReturningToStart' = TRUE
  /\ lastPointer' = "up"
  /\ NoDrag
  /\ UNCHANGED <<lifecycleVars, windowVars, previousMousePosition, targetVars,
                 cameraVars, frameVars, moves, noiseVars>>

\* handleResize(), reading the window's size
HandleResize(size) ==
  /\ cameraAspect' = size
  /\ rendererSize' = size

\* The host dispatches an event to the handlers registered for it.
PointerDown ==
  \E x \in Coords, y \in Coords :
    IF LMouseDown \in listeners THEN OnMouseDown(x, y) ELSE UNCHANGED vars

PointerMove ==
  \E x \in Coords, y \in Coords :
    IF LMouseMove \in listeners THEN OnMouseMove(x, y) ELSE UNCHANGED vars

PointerUp ==
  IF LMouseUp \in listeners THEN OnMouseUp ELSE UNCHANGED vars

Resize ==
  \E size \in WindowSizes :
    /\ innerSize' = size
    /\ IF LResize \in listeners
         THEN HandleResize(size)
         ELSE UNCHANGED <<cameraAspect, rendererSize>>
    /\ UNCHANGED <<lifecycleVars, mouseVars, targetVars, cameraVars, frameVars,
                   historyVars, noiseVars>>

\* CleanupListeners without the mouseup registration.
CleanupListenersLeak == {LResize, LMouseMove, LMouseDown}

\* The listeners the onCleanup callback removes.
CleanupListeners == {LResize, LMouseMove, LMouseUp, LMouseDown}

\* The onCleanup callback registered at the end of onMount.
OnCleanup ==
  /\ listeners' = listeners \ CleanupListeners
  /\ domAttached' = FALSE
  /\ backgroundCleaned' = TRUE
  /\ rendererDisposed' = TRUE
  /\ cleanedUp' = TRUE
  /\ UNCHANGED <<rafPending, sceneChildren>>

\* The component is unmounted: its owner runs the cleanups registered on it.
Unmount ==
  /\ mounted
  /\ ~disposed
  /\ disposed' = TRUE
  /\ IF cleanupRegistered
       THEN OnCleanup
       ELSE UNCHANGED <<listeners, domAttached, backgroundCleaned,
                        rendererDisposed, cleanedUp, rafPending, sceneChildren>>
  /\ UNCHANGED <<container, mounted, cleanupRegistered, windowVars, mouseVars,
                 targetVars, cameraVars, frameVars, historyVars, noiseVars>>

Next ==
  \/ OnMount
  \/ Frame
  \/ PointerDown
  \/ PointerMove
  \/ PointerUp
  \/ Resize
  \/ Unmount

Spec == Init /\ [][Next]_vars

\* The noise function on its own: the inputs are drawn by InitN, and the
\* actions call it.
InitN ==
  /\ container = TRUE
  /\ innerSize = "wide"
  /\ InitScene
  /\ noiseIn \in NoiseInputs
  /\ InitNoise

NextN ==
  \/ Evaluate
  \/ EvaluateShifted

SpecNoise == InitN /\ [][NextN]_vars

\* -------------------------------------------------------------- properties

Abs(n) == IF n < 0 THEN -n ELSE n

\* A step in which animate ran (only animate advances time).
FrameStep == time' # time

\* C1: once the onCleanup callback has run, no animation-frame registration
\* made by animate remains pending (so animate never runs again).
C1_TeardownReleasesFrameLoop == cleanedUp => ~rafPending

\* C2: teardown removes each of the four registrations of onMount, and from
\* then on no pointer or resize event changes the mouse state, the camera
\* target, the camera's aspect or the renderer's size (the target then
\* changes in a frame only).
C2_TeardownUnregistersListeners ==
  [][cleanedUp' =>
       /\ listeners' = {}
       /\ cleanedUp =>
            /\ UNCHANGED <<mouseVars, cameraAspect, rendererSize>>
            /\ ~FrameStep => UNCHANGED targetVars]_vars

C2_Witness ==
  /\ cleanedUp
  /\ isMouseDown
  /\ innerSize # cameraAspect
  /\ targetCameraPosition # initialCameraPosition

\* C3: noise has period 256 along each axis: evaluated any number of periods
\* away along x, y and z, at negative coordinates too, it returns what it
\* returns at the point itself.
C3_NoisePeriodic == noiseEvaluated => noiseOut = noiseBase

C3_Witness ==
  /\ noiseEvaluated
  /\ \A k \in 1..3 : noiseShift[k] # 0
  /\ noiseIn[1] < 0
  /\ noiseIn[2] < 0 /\ Shifted(noiseIn, noiseShift)[2] > 0
  /\ \A k \in 1..3 : Frac(noiseIn[k]) # 0
  /\ noiseOut # 0

\* C4: the value noise returns lies within [-1, 1].
C4_NoiseWithinUnitRange ==
  noiseEvaluated => (noiseOut >= -NoiseDen /\ noiseOut <= NoiseDen)

\* The distance d of a target component from its initial value becomes e in
\* a decay step: e = 0.95 * d, so that e is strictly nearer zero than d, on
\* the same side as d, and not zero.
Decays(d, e) ==
  /\ 20 * e = 19 * d
  /\ d > 0 => (0 < e /\ e < d)
  /\ d < 0 => (d < e /\ e < 0)
  /\ d = 0 => e = 0

\* C5: in every frame taken while isReturningToStart, each component of the
\* target position and rotation moves strictly nearer its initial value by
\* the factor 0.95 (so the distance tends to zero), never past it, and never
\* onto it.
C5_DecayConverges ==
  [][(FrameStep /\ isReturningToStart) =>
       \A k \in 1..3 :
         /\ Decays(targetCameraPosition[k] - initialCameraPosition[k],
                   targetCameraPosition'[k] - initialCameraPosition[k])
         /\ Decays(targetCameraRotation[k] - initialCameraRotation[k],
                   targetCameraRotation'[k] - initialCameraRotation[k])]_vars

\* The target has been dragged off the initial pose on x and y and has then
\* decayed in two frames at least (it no longer lies on the grid one decay
\* step leaves it on).
C5_Witness ==
  /\ isReturningToStart
  /\ \A k \in 1..2 :
       /\ (targetCameraPosition[k] - initialCameraPosition[k])
            % ((Scale \div 100) \div 20) # 0
       /\ targetCameraRotation[k] % ((Scale \div 200) \div 20) # 0

\* C6: isReturningToStart is true exactly when the last handled of
\* pointer-down and pointer-up was a pointer-up, isMouseDown exactly when it
\* was a pointer-down (which recorded the drag origin); the two are never
\* true together.
C6_ReturningIffLastWasUp ==
  /\ isReturningToStart <=> lastPointer = "up"
  /\ isMouseDown <=> lastPointer = "down"
  /\ ~(isMouseDown /\ isReturningToStart)
  /\ (isMouseDown /\ dragMoves = 0) => previousMousePosition = dragOrigin

C6_Witness ==
  /\ isReturningToStart
  /\ lastPointer = "up"
  /\ moves = MaxMoves
  /\ time = MaxTime
  /\ targetCameraPosition # initialCameraPosition

\* C7: during a drag the target has changed, since the pointer-down at
\* (x0, y0), by exactly 0.01*(xn-x0) on position.x, -0.01*(yn-y0) on
\* position.y, 0.005*(xn-x0) on rotation.y and 0.005*(yn-y0) on rotation.x,
\* (xn, yn) being the last pointer position, whatever the moves between and
\* however many frames ran; position.z and rotation.z have not changed.
C7_DragAccumulatesDelta ==
  isMouseDown =>
    LET dx == previousMousePosition[1] - dragOrigin[1]
        dy == previousMousePosition[2] - dragOrigin[2]
    IN /\ 100 * (targetCameraPosition[1] - dragStartPosition[1]) = dx * Scale
       /\ 100 * (targetCameraPosition[2] - dragStartPosition[2]) = -dy * Scale
       /\ targetCameraPosition[3] = dragStartPosition[3]
       /\ 200 * (targetCameraRotation[1] - dragStartRotation[1]) = dy * Scale
       /\ 200 * (targetCameraRotation[2] - dragStartRotation[2]) = dx * Scale
       /\ targetCameraRotation[3] = dragStartRotation[3]

C7_Witness ==
  /\ isMouseDown
  /\ dragMoves >= 2
  /\ dragFramed
  /\ previousMousePosition[1] # dragOrigin[1]
  /\ previousMousePosition[2] # dragOrigin[2]

C9_NoContainerNoSetup ==
  ~container =>
    /\ listeners = {}
    /\ ~rafPending
    /\ sceneChildren = {}
    /\ ~cleanupRegistered /\ ~cleanedUp
    /\ ~domAttached /\ ~rendererDisposed /\ ~backgroundCleaned
    /\ cameraAspect = "unset" /\ rendererSize = "unset"
    /\ time = 0 /\ uniformTime = 0 /\ terrainRotationZ = 0 /\ renders = 0
    /\ ~isMouseDown /\ ~isReturningToStart
    /\ previousMousePosition = <<0, 0>>
    /\ targetCameraPosition = initialCameraPosition
    /\ targetCameraRotation = initialCameraRotation
    /\ cameraPosition = initialCameraPosition
    /\ cameraRotation = initialCameraRotation

C9_Witness == ~container /\ mounted /\ disposed

\* The camera component c becomes c2 in a frame whose decay step left the
\* target component at t: c2 = c + 0.1 * (t - c), which lies between c and t,
\* at 0.9 of c's distance from t.
Follows(c, t, c2) ==
  /\ 10 * (c2 - c) = t - c
  /\ 10 * (t - c2) = 9 * (t - c)
  /\ Abs(t - c2) <= Abs(t - c)
  /\ t >= c => (c <= c2 /\ c2 <= t)
  /\ t <= c => (t <= c2 /\ c2 <= c)

\* C10: in every frame, whatever isMouseDown and isReturningToStart, each
\* camera position and rotation component c becomes c + 0.1 * (t - c), t
\* being the target component after that frame's decay step.
C10_CameraFollowsTarget ==
  [][FrameStep =>
       /\ targetCameraPosition' =
            IF isReturningToStart
              THEN LerpV(targetCameraPosition, initialCameraPosition, 20)
              ELSE targetCameraPosition
       /\ \A k \in 1..3 :
            /\ Follows(cameraPosition[k], targetCameraPosition'[k],
                       cameraPosition'[k])
            /\ Follows(cameraRotation[k], targetCameraRotation'[k],
                       cameraRotation'[k])]_vars

\* A frame has run during a drag and the camera is on its way to the target.
C10_Witness ==
  /\ isMouseDown
  /\ dragFramed
  /\ \A k \in 1..2 :
       /\ cameraPosition[k] # initialCameraPosition[k]
       /\ cameraPosition[k] # targetCameraPosition[k]
       /\ cameraRotation[k] # 0
       /\ cameraRotation[k] # targetCameraRotation[k]

\* C11: every index at which an evaluation of noise reads the permutation
\* table (X, X+1, A, A+1, B, B+1, AA, AA+1, AB, AB+1, BA, BA+1, BB, BB+1) lies
\* in 0..511, for negative and for far-away inputs too, and the read yields
\* an entry of the permutation of 0..255; the table is the 256 entries twice
\* over, and no step of an evaluation changes it.
TableDoubled ==
  /\ Len(pTable) = 512
  /\ \A i \in 0..255 : p(i) = permutation[i + 1] /\ p(i + 256) = p(i)
  /\ {permutation[i] : i \in 1..Len(permutation)} = 0..255

C11_TableReadsInRange ==
  /\ noiseEvaluated =>
       /\ Cardinality(pReads) >= 1
       /\ \A i \in pReads : i \in 0..511 /\ p(i) \in 0..255
  /\ TableDoubled

C11_Witness ==
  /\ noiseEvaluated
  /\ 256 \in pReads
  /\ noiseIn[2] < 0
  /\ noiseShift[1] > 0
  /\ \E i \in pReads : i > 500

\* The target pose and the camera pose are both the initial pose: position
\* (0, 5, 15), rotation (0, 0, 0).
AtInitialPose ==
  /\ targetCameraPosition = <<0, 5 * Scale, 15 * Scale>>
  /\ targetCameraRotation = <<0, 0, 0>>
  /\ cameraPosition = <<0, 5 * Scale, 15 * Scale>>
  /\ cameraRotation = <<0, 0, 0>>

\* C12: as long as no pointer-move has been handled while the mouse was
\* down, the target pose and the camera pose are both exactly the initial
\* pose, whatever frames, pointer-downs, pointer-ups and other pointer-moves
\* have happened; and a pointer-move while the mouse is not down changes no
\* variable at all (previousMousePosition included).
C12_PoseHeldUntilFirstDragMove ==
  [][/\ moves = 0 => AtInitialPose
     /\ moves' = 0 => AtInitialPose'
     /\ (~isMouseDown /\ PointerMove) => UNCHANGED vars]_vars

C12_Witness ==
  /\ moves = 0
  /\ AtInitialPose
  /\ time = MaxTime
  /\ isReturningToStart
  /\ ~isMouseDown
  /\ lastPointer = "up"
  /\ previousMousePosition # <<0, 0>>

====
